---- MODULE Spec2Model ----
(***************************************************************************)
(* Model of the Enhanced Whispermind_Conduit (src/src/enhanced-conduit.js): *)
(* the Redis request handler, the session and conversation stores, the     *)
(* agentic orchestrator and the response / error publication.              *)
(*                                                                         *)
(* The service is a single-threaded event loop: the code between two       *)
(* awaits runs atomically.  Every action below is one such segment: the    *)
(* local code that leads to an awaited operation together with that        *)
(* operation.  Commands on the one main Redis connection are executed in   *)
(* the order they are issued, so a command takes effect in the action      *)
(* that issues it; it is rejected when the connection is down.            *)
(***************************************************************************)
EXTENDS Integers, Sequences, FiniteSets, TLC

\* ---------------------------------------------------------------- bounds
NumTasks == 2
MaxToolCalls == 2
MaxRedisErrors == 1

\* ------------------------------------------------------ program constants
HistoryCap == 100
SessionTTL == 86400
ConversationTTL == 604800
DefaultLimit == 5

Tasks == 1..NumTasks

\* a key without time-to-live (TTL -1 in Redis)
NoTTL == 0 - 1

Undefined == "<undefined>"
Anonymous == "anonymous"
FallbackText == "No response generated"
MadnessLevel == "autonomous_chaos"
ErrorMadnessLevel == "error_chaos"
ErrorCategory == "Enhanced processing failed"
AgentActivityService == "Enhanced_Whispermind_Conduit"

ToolRegistry == {"file_analyzer", "system_info", "mad_calculator", "conversation_history"}
InvokedTools == {"system_info", "mad_calculator"}

\* --------------------------------------------------------- message texts
\* A message text is named by a TLA+ string; Chars spells it out so that
\* String.prototype.includes can be computed character by character.
Chars ==
  [m \in {"Hello", "solve", "Solve", "resolved", "analyze", "analyze it",
          "calculate", "do calculate", "Calculate", "calc"} |->
     CASE m = "Hello"        -> <<"H","e","l","l","o">>
       [] m = "solve"        -> <<"s","o","l","v","e">>
       [] m = "Solve"        -> <<"S","o","l","v","e">>
       [] m = "resolved"     -> <<"r","e","s","o","l","v","e","d">>
       [] m = "analyze"      -> <<"a","n","a","l","y","z","e">>
       [] m = "analyze it"   -> <<"a","n","a","l","y","z","e"," ","i","t">>
       [] m = "calculate"    -> <<"c","a","l","c","u","l","a","t","e">>
       [] m = "do calculate" -> <<"d","o"," ","c","a","l","c","u","l","a","t","e">>
       [] m = "Calculate"    -> <<"C","a","l","c","u","l","a","t","e">>
       [] m = "calc"         -> <<"c","a","l","c">>]

RECURSIVE IndexOfFrom(_, _, _)
IndexOfFrom(hay, needle, i) ==
  IF i + Len(needle) - 1 > Len(hay) THEN -1
  ELSE IF SubSeq(hay, i, i + Len(needle) - 1) = needle THEN i - 1
  ELSE IndexOfFrom(hay, needle, i + 1)

Includes(text, word) == IndexOfFrom(Chars[text], Chars[word], 1) # -1

\* ------------------------------------------------------ request payloads
Field(obj, f) == IF f \in DOMAIN obj THEN obj[f] ELSE Undefined

\* a JSON number, and typeof v === 'string'
NumberSeven == "<number 7>"
IsString(v) == v \notin {Undefined, NumberSeven}

\* requests answered by direct generation, and one without message text
StandardRequests ==
  { [id |-> "a", user |-> "u1", message |-> "Hello", agent_mode |-> "standard"],
    [message |-> "Hello"],
    [id |-> "b", user |-> "u1"] }

\* requests that select the tool-augmented call
AgenticRequests ==
  { [id |-> "a", message |-> "do calculate"],
    [user |-> "u1", message |-> "Hello", agent_mode |-> "autonomous"] }

\* requests whose assembled envelope cannot pass the schema (a number as id,
\* no message text with the autonomous flag), and one that can
DefectRequests ==
  { [id |-> NumberSeven, user |-> "u1", message |-> "Hello"],
    [id |-> "c", agent_mode |-> "autonomous"],
    [id |-> "a", user |-> "u1", message |-> "Hello", agent_mode |-> "standard"] }

Requests == StandardRequests \cup AgenticRequests \cup DefectRequests

Garbage == [kind |-> "garbage", body |-> [raw |-> "not json"]]

AsPayloads(reqs) == { [kind |-> "object", body |-> r] : r \in reqs }

Payloads == AsPayloads(Requests) \cup {Garbage}

Users == {"u1", Anonymous}

VARIABLES
  isConnected, redisErrors,
  sessions, conversations, processingQueue,
  responseChannel, activityChannel, agentLogs,
  pc, request, requestId, existingSession, sessionWritten,
  mode, agentRounds, toolsUsed, curTool, toolArgs, history, toolCalls, toolResults,
  responseMessage, error, terminal, appended, storeFailed,
  model, startPc, shutdownPc, exitCode, statusMessage, statusChannel, serviceStatus,
  statusWriteFailed

vars == << isConnected, redisErrors,
           sessions, conversations, processingQueue,
           responseChannel, activityChannel, agentLogs,
           pc, request, requestId, existingSession, sessionWritten,
           mode, agentRounds, toolsUsed, curTool, toolArgs, history, toolCalls,
           toolResults, responseMessage, error, terminal, appended, storeFailed,
           model, startPc, shutdownPc, exitCode, statusMessage, statusChannel,
           serviceStatus, statusWriteFailed >>

lifeVars == << model, startPc, shutdownPc, exitCode, statusMessage, statusChannel,
              serviceStatus, statusWriteFailed >>
storeVars == << sessions, conversations >>
busVars == << responseChannel, activityChannel, agentLogs >>
roundVars == << agentRounds, toolsUsed, curTool, toolArgs, history, toolCalls,
               toolResults >>
envVars == << isConnected, redisErrors >>

\* ------------------------------------------------------------- helpers
Min(a, b) == IF a < b THEN a ELSE b

Put(f, k, v) == [x \in DOMAIN f \cup {k} |-> IF x = k THEN v ELSE f[x]]
Remove(f, k) == [x \in DOMAIN f \ {k} |-> f[x]]

Uuid(t) == "uuid-" \o ToString(t)

NoRequest == [raw |-> "none"]
\* no arguments (system_info), and no reply of lrange yet
NoArgs == [x \in {} |-> Undefined]
NoReply == [x \in {} |-> <<>>]
NoEnvelope == [raw |-> "none"]

UserOf(req) == IF "user" \in DOMAIN req THEN req.user ELSE Anonymous

\* the tool list handed on as collected, without the Set
DedupeKeepsAll(s) == s

\* [...new Set(toolsUsed)]: first occurrences, in insertion order
RECURSIVE Dedupe(_)
Dedupe(s) ==
  IF s = <<>> THEN <<>>
  ELSE LET front == Dedupe(SubSeq(s, 1, Len(s) - 1))
           last == s[Len(s)]
       IN IF \E i \in 1..Len(front) : front[i] = last THEN front
          ELSE Append(front, last)

\* the stored conversations of a user before any request of this run:
\* n entries, the most recent first, entry i being the i-th most recent
OldEntry(i) ==
  [userMessage |-> "earlier message", aiResponse |-> "earlier-" \o ToString(i),
   agentRounds |-> 0, toolsUsed |-> <<>>, madnessLevel |-> MadnessLevel]

Prefilled(n) == [i \in 1..n |-> OldEntry(i)]

BackendResults == { [parsed |-> "answer"], [content |-> ""] }

\* ------------------------------------------------------- status payloads
ServiceVersion == "2.0.0"
Callers == {"start", "shutdown"}

\* the process has not called process.exit
Alive == exitCode = Undefined

\* connectRedis has created the connections and registered their handlers
RedisCreated == Alive /\ startPc # "initializeLMStudio"

\* redisSub.on('message') has been registered
Subscribed == Alive /\ startPc \in {"waitForConnect", "publishStatus", "started"}

StatusMessage(status) ==
  [service |-> AgentActivityService, version |-> ServiceVersion, status |-> status,
   processing_queue_size |-> Cardinality(DOMAIN processingQueue),
   madness_level |-> MadnessLevel]

\* publishStatus up to its first await: nothing when the main connection is
\* down, else the payload is published and the call waits for the reply
PublishStatus(caller, status, connected) ==
  IF connected
  THEN /\ statusChannel' = Append(statusChannel, StatusMessage(status))
       /\ statusMessage' =
            Append(statusMessage, [caller |-> caller, message |-> StatusMessage(status)])
  ELSE UNCHANGED << statusChannel, statusMessage >>

\* ------------------------------------------------------------------ Init
\* the service after start() has completed
Started ==
  /\ model = "loaded"
  /\ startPc = "started"
  /\ shutdownPc = "none"
  /\ exitCode = Undefined
  /\ statusMessage = <<>>
  /\ statusWriteFailed = FALSE
  /\ statusChannel = << [service |-> AgentActivityService, version |-> ServiceVersion,
                         status |-> "ONLINE", processing_queue_size |-> 0,
                         madness_level |-> MadnessLevel] >>
  /\ serviceStatus = statusChannel
  /\ isConnected = TRUE
  /\ redisErrors = 0

\* the service after its constructor, before start()
Constructed ==
  /\ model = "null"
  /\ startPc = "initializeLMStudio"
  /\ shutdownPc = "none"
  /\ exitCode = Undefined
  /\ statusMessage = <<>>
  /\ statusWriteFailed = FALSE
  /\ statusChannel = <<>>
  /\ serviceStatus = <<>>
  /\ isConnected = FALSE
  /\ redisErrors = 0

\* no request has arrived; the stores as earlier runs left them
Idle ==
  /\ sessions = [u \in {} |-> [conversationCount |-> 0, ttl |-> NoTTL]]
  /\ conversations =
       [u \in Users |->
          IF u = "u1"
          THEN [list |-> Prefilled(HistoryCap - 1), ttl |-> ConversationTTL]
          ELSE [list |-> <<>>, ttl |-> NoTTL]]
  /\ processingQueue = [k \in {} |-> 0]
  /\ responseChannel = <<>>
  /\ activityChannel = <<>>
  /\ agentLogs = <<>>
  /\ pc = [t \in Tasks |-> "idle"]
  /\ request = [t \in Tasks |-> NoRequest]
  /\ requestId = [t \in Tasks |-> Undefined]
  /\ existingSession = [t \in Tasks |-> <<>>]
  /\ sessionWritten = [t \in Tasks |-> FALSE]
  /\ mode = [t \in Tasks |-> "none"]
  /\ agentRounds = [t \in Tasks |-> 0]
  /\ toolsUsed = [t \in Tasks |-> <<>>]
  /\ curTool = [t \in Tasks |-> Undefined]
  /\ toolArgs = [t \in Tasks |-> NoArgs]
  /\ history = [t \in Tasks |-> NoReply]
  /\ toolCalls = [t \in Tasks |-> <<>>]
  /\ toolResults = [t \in Tasks |-> <<>>]
  /\ responseMessage = [t \in Tasks |-> NoEnvelope]
  /\ error = [t \in Tasks |-> Undefined]
  /\ terminal = [t \in Tasks |-> <<>>]
  /\ appended = [t \in Tasks |-> 0]
  /\ storeFailed = [t \in Tasks |-> FALSE]

\* the started service with an idle request channel
Init == Started /\ Idle

\* the constructed service, start() about to run
LifeInit == Constructed /\ Idle

\* --------------------------------------------------- Redis connection events
\* 'connect' on the main connection; it also resolves the promise start() may
\* be waiting on, and start() goes on to publish ONLINE
RedisConnect ==
  /\ RedisCreated
  /\ ~isConnected
  /\ isConnected' = TRUE
  /\ IF startPc = "waitForConnect"
     THEN /\ PublishStatus("start", "ONLINE", TRUE)
          /\ startPc' = "publishStatus"
          /\ UNCHANGED << model, shutdownPc, exitCode, serviceStatus, statusWriteFailed >>
     ELSE UNCHANGED lifeVars
  /\ UNCHANGED << redisErrors, storeVars, processingQueue, busVars, pc,
                  request, requestId, existingSession, sessionWritten, mode, roundVars,
                  responseMessage, error, terminal, appended, storeFailed >>

RedisError ==
  /\ RedisCreated
  /\ isConnected
  /\ redisErrors < MaxRedisErrors
  /\ isConnected' = FALSE
  /\ redisErrors' = redisErrors + 1
  /\ UNCHANGED << storeVars, processingQueue, busVars, pc,
                  request, requestId, existingSession, sessionWritten, mode, roundVars,
                  responseMessage, error, terminal, appended, storeFailed, lifeVars >>

\* ------------------------------------------------------------ key expiry
\* the time-to-live of a key has run out: Redis removes the key
SessionExpires(u) ==
  /\ Alive
  /\ u \in DOMAIN sessions
  /\ sessions' = Remove(sessions, u)
  /\ UNCHANGED << envVars, conversations, processingQueue, busVars, pc,
                  request, requestId, existingSession, sessionWritten, mode, roundVars,
                  responseMessage, error, terminal, appended, storeFailed, lifeVars >>

ConversationExpires(u) ==
  /\ Alive
  /\ conversations[u].list # <<>>
  /\ conversations[u].ttl # NoTTL
  /\ conversations' = [conversations EXCEPT ![u] = [list |-> <<>>, ttl |-> NoTTL]]
  /\ UNCHANGED << envVars, sessions, processingQueue, busVars, pc,
                  request, requestId, existingSession, sessionWritten, mode, roundVars,
                  responseMessage, error, terminal, appended, storeFailed, lifeVars >>

\* ------------------------------------------------ handleIncomingMessage
HandleIncomingMessage(t, p) ==
  /\ Subscribed
  /\ pc[t] = "idle"
  /\ t > 1 => pc[t - 1] # "idle"
  /\ IF p.kind # "object"
     THEN /\ pc' = [pc EXCEPT ![t] = "dropped"]
          /\ UNCHANGED << request, requestId, existingSession >>
     ELSE /\ request' = [request EXCEPT ![t] = p.body]
          /\ requestId' = [requestId EXCEPT ![t] =
                             IF "id" \in DOMAIN p.body THEN p.body.id ELSE Uuid(t)]
          /\ IF isConnected
             THEN /\ existingSession' = [existingSession EXCEPT ![t] =
                        IF UserOf(p.body) \in DOMAIN sessions
                        THEN << sessions[UserOf(p.body)] >> ELSE <<>>]
                  /\ pc' = [pc EXCEPT ![t] = "setex"]
             ELSE /\ pc' = [pc EXCEPT ![t] = "enqueue"]
                  /\ UNCHANGED existingSession
  /\ UNCHANGED << envVars, storeVars, processingQueue, busVars, sessionWritten,
                  mode, roundVars, responseMessage, error, terminal, appended, storeFailed, lifeVars >>

\* ---------------------------------------------------- updateUserSession
\* a session write that does not count the request
NewSessionNoIncrement(existing) ==
  [conversationCount |->
     IF existing # <<>> THEN existing[1].conversationCount ELSE 1,
   ttl |-> SessionTTL]

\* a session write that keeps no expiry on the key (SET instead of SETEX)
NewSessionNoExpiry(existing) ==
  [conversationCount |->
     IF existing # <<>> THEN existing[1].conversationCount + 1 ELSE 1,
   ttl |-> NoTTL]

NewSession(existing) ==
  [conversationCount |->
     IF existing # <<>> THEN existing[1].conversationCount + 1 ELSE 1,
   ttl |-> SessionTTL]

\* the defaults of the preferences; temperatures are counted in tenths
DefaultTemperature == 7
DefaultMaxTokens == 1000

\* request[f] || d for a number: a missing field and 0 are both falsy
OrDefault(req, f, d) == IF f \in DOMAIN req /\ req[f] # 0 THEN req[f] ELSE d

\* { ...parsed.preferences, ...session.preferences }: the keys built from
\* the request win over the keys of the record that was read
Preferences(existing, req) ==
  LET own == [agenticMode |-> Field(req, "agent_mode") = "autonomous",
              temperature |-> OrDefault(req, "temperature", DefaultTemperature),
              maxTokens |-> OrDefault(req, "max_tokens", DefaultMaxTokens)]
  IN IF existing # <<>> /\ "preferences" \in DOMAIN existing[1]
     THEN own @@ existing[1].preferences
     ELSE own

UpdateUserSession(t) ==
  /\ Alive
  /\ pc[t] = "setex"
  /\ IF isConnected
     THEN /\ sessions' = Put(sessions, UserOf(request[t]),
                             NewSession(existingSession[t])
                               @@ [preferences |->
                                     Preferences(existingSession[t], request[t])])
          /\ sessionWritten' = [sessionWritten EXCEPT ![t] = TRUE]
     ELSE UNCHANGED << sessions, sessionWritten >>
  /\ pc' = [pc EXCEPT ![t] = "enqueue"]
  /\ UNCHANGED << envVars, conversations, processingQueue, busVars,
                  request, requestId, existingSession, mode, roundVars,
                  responseMessage, error, terminal, appended, storeFailed, lifeVars >>

\* ------------------------------------------------ processAgenticRequest
\* mode selection without the "calculate" trigger
UseAgentModeNoCalculate(req) ==
  \/ Field(req, "agent_mode") = "autonomous"
  \/ Includes(req.message, "solve")
  \/ Includes(req.message, "analyze")

\* useAgentMode of the MQTT variant of the service
MqttUseAgentMode(req) ==
  \/ Field(req, "agent_mode") = "autonomous"
  \/ Includes(req.message, "solve")
  \/ Includes(req.message, "analyze")

UseAgentMode(req) ==
  \/ Field(req, "agent_mode") = "autonomous"
  \/ Includes(req.message, "solve")
  \/ Includes(req.message, "analyze")
  \/ Includes(req.message, "calculate")

\* request.message.includes throws a TypeError when message is missing and
\* the first disjunct did not short-circuit
ModeThrows(req) ==
  /\ Field(req, "agent_mode") # "autonomous"
  /\ "message" \notin DOMAIN req

ProcessAgenticRequest(t) ==
  /\ Alive
  /\ pc[t] = "enqueue"
  /\ processingQueue' = Put(processingQueue, requestId[t], t)
  /\ agentRounds' = [agentRounds EXCEPT ![t] = 0]
  /\ toolsUsed' = [toolsUsed EXCEPT ![t] = <<>>]
  /\ IF ModeThrows(request[t])
     THEN /\ error' = [error EXCEPT ![t] = "TypeError"]
          /\ pc' = [pc EXCEPT ![t] = "sendError"]
          /\ UNCHANGED mode
     ELSE /\ mode' = [mode EXCEPT ![t] =
                 IF UseAgentMode(request[t]) THEN "autonomous" ELSE "standard"]
          /\ pc' = [pc EXCEPT ![t] =
                 IF UseAgentMode(request[t]) THEN "act" ELSE "respond"]
          /\ UNCHANGED error
  /\ UNCHANGED << envVars, storeVars, busVars, request, requestId,
                  existingSession, sessionWritten, curTool, toolArgs, history,
                  toolCalls, toolResults, responseMessage, terminal, appended, storeFailed, lifeVars >>

\* --------------------------------------------------- publishAgentActivity
\* an activity message tagged with the id of some other task's request
ActivityMessageOfOther(t, roundInfo) ==
  [request_id |-> requestId[CHOOSE o \in Tasks : o # t], activity |-> roundInfo,
   service |-> AgentActivityService]

ActivityMessage(t, roundInfo) ==
  [request_id |-> requestId[t], activity |-> roundInfo,
   service |-> AgentActivityService]

AgentLogEntry(t, roundInfo) ==
  [requestId |-> requestId[t], tool |-> roundInfo.tool_name,
   round |-> Field(roundInfo, "round"), status |-> roundInfo.status]

\* a callback whose activity message overtakes the ones already published
OnRoundCallbackPrepends(t, roundInfo) ==
  /\ agentRounds' = [agentRounds EXCEPT ![t] = @ + 1]
  /\ toolsUsed' = [toolsUsed EXCEPT ![t] = Append(@, roundInfo.tool_name)]
  /\ IF isConnected
     THEN /\ activityChannel' = << ActivityMessage(t, roundInfo) >> \o activityChannel
          /\ agentLogs' = Append(agentLogs, AgentLogEntry(t, roundInfo))
     ELSE UNCHANGED << activityChannel, agentLogs >>

\* a callback that only counts: nothing goes to the activity channel
OnRoundCallbackSilent(t, roundInfo) ==
  /\ agentRounds' = [agentRounds EXCEPT ![t] = @ + 1]
  /\ toolsUsed' = [toolsUsed EXCEPT ![t] = Append(@, roundInfo.tool_name)]
  /\ UNCHANGED << activityChannel, agentLogs >>

\* the callback handed to processWithAgenticTools: counts the round, records
\* the tool and calls publishAgentActivity, which is skipped while not
\* connected and otherwise publishes the activity and adds the stream entry
OnRoundCallback(t, roundInfo) ==
  /\ agentRounds' = [agentRounds EXCEPT ![t] = @ + 1]
  /\ toolsUsed' = [toolsUsed EXCEPT ![t] = Append(@, roundInfo.tool_name)]
  /\ IF isConnected
     THEN /\ activityChannel' = Append(activityChannel, ActivityMessage(t, roundInfo))
          /\ agentLogs' = Append(agentLogs, AgentLogEntry(t, roundInfo))
     ELSE UNCHANGED << activityChannel, agentLogs >>

\* ----------------------------------------- model.act hooks (the backend)
RECURSIVE SumUpTo(_, _)
SumUpTo(f, n) == IF n = 0 THEN 0 ELSE Len(f[n]) + SumUpTo(f, n - 1)

\* tool invocations the backend has started in this run, over all requests
TotalToolCalls == SumUpTo(toolCalls, NumTasks)

\* the arguments the backend passes to a tool
HistoryLimits == {0, 1, 7}

HistoryArgs ==
  { [userId |-> u] : u \in Users }
    \cup { [userId |-> u, limit |-> n] : u \in Users, n \in HistoryLimits }

ArgsOf(tool) ==
  CASE tool = "file_analyzer" -> { [filePath |-> "notes.txt"] }
    [] tool = "system_info" -> { NoArgs }
    [] tool = "mad_calculator" -> { [expression |-> "42*137+256"] }
    [] tool = "conversation_history" -> HistoryArgs

\* what can go wrong inside a tool apart from the Redis connection
ToolFaults(tool) ==
  CASE tool = "file_analyzer" -> {"none", "ENOENT"}
    [] tool = "mad_calculator" -> {"none", "SyntaxError"}
    [] OTHER -> {"none"}

\* a tool whose failure leaves the function without a result object
ToolFunctionNoCatch(tool, fault) ==
  IF fault # "none" THEN [thrown |-> fault]
  ELSE [result |-> "ok"]

\* file_analyzer, system_info and mad_calculator: the value the function returns
ToolFunction(tool, fault) ==
  CASE tool = "file_analyzer" ->
         IF fault = "none"
         THEN [size |-> "12", lines |-> "1", type |-> ".txt", preview |-> "some notes"]
         ELSE [error |-> fault]
    [] tool = "system_info" -> [platform |-> "linux", arch |-> "x64"]
    [] tool = "mad_calculator" ->
         IF fault = "none"
         THEN [result |-> "5010", madness_factor |-> "0.5"]
         ELSE [error |-> "Calculation failed", madness_level |-> "chaotic"]

OnToolCall(t, tool, args) ==
  /\ Alive
  /\ pc[t] = "act"
  /\ curTool[t] = Undefined
  /\ TotalToolCalls < MaxToolCalls
  /\ curTool' = [curTool EXCEPT ![t] = tool]
  /\ toolArgs' = [toolArgs EXCEPT ![t] = args]
  /\ history' = [history EXCEPT ![t] = NoReply]
  /\ toolCalls' = [toolCalls EXCEPT ![t] = Append(@, tool)]
  /\ OnRoundCallback(t, [tool_name |-> tool, round |-> ToString(Len(toolCalls[t]) + 1),
                         status |-> "executing"])
  /\ UNCHANGED << envVars, storeVars, processingQueue, responseChannel,
                  pc, request, requestId, existingSession, sessionWritten, mode,
                  toolResults, responseMessage, error, terminal, appended, storeFailed, lifeVars >>

\* ------------------------------------------- the conversation_history tool
Max(a, b) == IF a > b THEN a ELSE b

\* LRANGE key start stop: both ends inclusive, a negative index counts from
\* the end of the list, indexes out of range are cut to the list
Lrange(list, start, stop) ==
  LET len == Len(list)
      from == Max(IF start < 0 THEN len + start ELSE start, 0)
      to == Min(IF stop < 0 THEN len + stop ELSE stop, len - 1)
  IN IF from > to THEN <<>> ELSE SubSeq(list, from + 1, to + 1)

\* the default of the parameter, limit = 5
LimitOf(args) == IF "limit" \in DOMAIN args THEN args.limit ELSE DefaultLimit

\* the function up to its first await: redis.lrange(key, 0, limit - 1)
HistoryLrange(t) ==
  /\ Alive
  /\ pc[t] = "act"
  /\ curTool[t] = "conversation_history"
  /\ history[t] = NoReply
  /\ history' = [history EXCEPT ![t] =
       IF isConnected
       THEN [reply |-> Lrange(conversations[toolArgs[t].userId].list, 0,
                              LimitOf(toolArgs[t]) - 1),
             seen |-> conversations[toolArgs[t].userId].list]
       ELSE [error |-> "Connection is closed."]]
  /\ UNCHANGED << envVars, storeVars, processingQueue, busVars, pc, request,
                  requestId, existingSession, sessionWritten, mode, agentRounds,
                  toolsUsed, curTool, toolArgs, toolCalls, toolResults,
                  responseMessage, error, terminal, appended, storeFailed, lifeVars >>

\* the rest of the function: redis.llen(key) and the object it returns
HistoryResult(t) ==
  IF "error" \in DOMAIN history[t] THEN [error |-> history[t].error]
  ELSE IF ~isConnected THEN [error |-> "Connection is closed."]
  ELSE [conversations |-> history[t].reply,
        total |-> Len(conversations[toolArgs[t].userId].list)]

\* the tool function returns and the backend calls on_tool_result
OnToolResult(t, fault) ==
  /\ Alive
  /\ pc[t] = "act"
  /\ curTool[t] # Undefined
  /\ fault \in ToolFaults(curTool[t])
  /\ curTool[t] = "conversation_history" => history[t] # NoReply
  /\ LET result == IF curTool[t] = "conversation_history" THEN HistoryResult(t)
                   ELSE ToolFunction(curTool[t], fault)
         failed == \/ fault # "none"
                   \/ /\ curTool[t] = "conversation_history"
                      /\ ("error" \in DOMAIN history[t] \/ ~isConnected)
     IN /\ toolResults' = [toolResults EXCEPT ![t] =
             Append(@, [name |-> curTool[t], args |-> toolArgs[t], failed |-> failed,
                        result |-> result, read |-> history[t]])]
        /\ OnRoundCallback(t, [tool_name |-> curTool[t], result |-> result,
                               status |-> "completed"])
  /\ curTool' = [curTool EXCEPT ![t] = Undefined]
  /\ toolArgs' = [toolArgs EXCEPT ![t] = NoArgs]
  /\ history' = [history EXCEPT ![t] = NoReply]
  /\ UNCHANGED << envVars, storeVars, processingQueue, responseChannel,
                  pc, request, requestId, existingSession, sessionWritten, mode,
                  toolCalls, responseMessage, error, terminal, appended, storeFailed, lifeVars >>

\* ------------------------------------------- response assembly and storage
\* a response text without the fixed fallback
ResponseTextNoFallback(r) ==
  IF "parsed" \in DOMAIN r /\ r.parsed # "" THEN r.parsed
  ELSE IF "content" \in DOMAIN r THEN r.content
  ELSE ""

ResponseText(r) ==
  IF "parsed" \in DOMAIN r /\ r.parsed # "" THEN r.parsed
  ELSE IF "content" \in DOMAIN r /\ r.content # "" THEN r.content
  ELSE FallbackText

\* a tools_used field that is always a list, empty when no tool ran
ToolsUsedFieldAlways(used) == [tools_used |-> Dedupe(used)]

ToolsUsedField(used) ==
  IF Len(used) > 0 THEN [tools_used |-> Dedupe(used)] ELSE [x \in {} |-> <<>>]

ResponseEnvelope(t, r) ==
  [id |-> requestId[t], user |-> UserOf(request[t]),
   original_message |-> Field(request[t], "message"),
   response |-> ResponseText(r),
   madness_level |-> MadnessLevel, agent_rounds |-> agentRounds[t]]
    @@ ToolsUsedField(toolsUsed[t])

\* ChatResponseSchema.parse: every required field must be a string
SchemaAccepts(env) ==
  /\ IsString(env.id)
  /\ IsString(env.user)
  /\ IsString(env.original_message)
  /\ IsString(env.response)

ConversationEntry(env) ==
  [userMessage |-> env.original_message,
   aiResponse |-> env.response, agentRounds |-> env.agent_rounds,
   toolsUsed |-> IF "tools_used" \in DOMAIN env THEN env.tools_used ELSE <<>>,
   madnessLevel |-> env.madness_level]

\* a push that puts the entry at the old end of the list (RPUSH)
LpushAtTail(conv, entry) == [conv EXCEPT !.list = @ \o << entry >>]

Lpush(conv, entry) == [conv EXCEPT !.list = << entry >> \o @]

\* a trim that keeps the tail of the list instead of its head
LtrimKeepsOldest(conv, first, last) ==
  [conv EXCEPT !.list =
     SubSeq(@, Len(@) - Min(Len(@), last - first + 1) + 1, Len(@))]

Ltrim(conv, first, last) ==
  IF SubSeq(conv.list, first + 1, Min(Len(conv.list), last + 1)) = <<>>
  THEN [list |-> <<>>, ttl |-> NoTTL]
  ELSE [conv EXCEPT !.list = SubSeq(@, first + 1, Min(Len(@), last + 1))]
ExpireKey(conv, seconds) ==
  IF conv.list = <<>> THEN conv ELSE [conv EXCEPT !.ttl = seconds]

\* the backend call returns: assemble and validate the envelope, then push
\* the conversation entry (storeConversation up to its first await)
ModelReturn(t, r) ==
  /\ Alive
  /\ \/ pc[t] = "respond"
     \/ pc[t] = "act" /\ curTool[t] = Undefined
  /\ IF ~SchemaAccepts(ResponseEnvelope(t, r))
     THEN /\ error' = [error EXCEPT ![t] = "ZodError"]
          /\ pc' = [pc EXCEPT ![t] = "sendError"]
          /\ UNCHANGED << responseMessage, conversations, appended, storeFailed >>
     ELSE /\ responseMessage' = [responseMessage EXCEPT ![t] = ResponseEnvelope(t, r)]
          /\ UNCHANGED error
          /\ IF isConnected
             THEN /\ conversations' =
                       [conversations EXCEPT ![UserOf(request[t])] =
                          Lpush(@, ConversationEntry(ResponseEnvelope(t, r)))]
                  /\ appended' = [appended EXCEPT ![t] = @ + 1]
                  /\ pc' = [pc EXCEPT ![t] = "ltrim"]
                  /\ UNCHANGED storeFailed
             ELSE /\ pc' = [pc EXCEPT ![t] = "publish"]
                  /\ storeFailed' = [storeFailed EXCEPT ![t] = TRUE]
                  /\ UNCHANGED << conversations, appended >>
  /\ UNCHANGED << envVars, sessions, processingQueue, busVars, request, requestId,
                  existingSession, sessionWritten, mode, roundVars, terminal,
                  lifeVars >>

\* the backend call rejects
ModelFault(t) ==
  /\ Alive
  /\ pc[t] \in {"respond", "act"}
  /\ error' = [error EXCEPT ![t] = "backend fault"]
  /\ pc' = [pc EXCEPT ![t] = "sendError"]
  /\ UNCHANGED << envVars, storeVars, processingQueue, busVars, request, requestId,
                  existingSession, sessionWritten, mode, roundVars, responseMessage, terminal,
                  appended, storeFailed, lifeVars >>

\* the backend call never settles: config.lmStudio.timeout is not handed to
\* model.respond / model.act, so nothing ends the wait
ModelHang(t) ==
  /\ Alive
  /\ pc[t] \in {"respond", "act"}
  /\ pc' = [pc EXCEPT ![t] = "hung"]
  /\ UNCHANGED << envVars, storeVars, processingQueue, busVars, request, requestId,
                  existingSession, sessionWritten, mode, roundVars, responseMessage, error,
                  terminal, appended, storeFailed, lifeVars >>

StoreConversationLtrim(t) ==
  /\ Alive
  /\ pc[t] = "ltrim"
  /\ IF isConnected
     THEN /\ conversations' = [conversations EXCEPT ![UserOf(request[t])] =
                                 Ltrim(@, 0, HistoryCap - 1)]
          /\ pc' = [pc EXCEPT ![t] = "expire"]
          /\ UNCHANGED storeFailed
     ELSE /\ pc' = [pc EXCEPT ![t] = "publish"]
          /\ storeFailed' = [storeFailed EXCEPT ![t] = TRUE]
          /\ UNCHANGED conversations
  /\ UNCHANGED << envVars, sessions, processingQueue, busVars, request, requestId,
                  existingSession, sessionWritten, mode, roundVars, responseMessage,
                  error, terminal, appended, lifeVars >>

StoreConversationExpire(t) ==
  /\ Alive
  /\ pc[t] = "expire"
  /\ IF isConnected
     THEN /\ conversations' = [conversations EXCEPT ![UserOf(request[t])] =
                                 ExpireKey(@, ConversationTTL)]
          /\ UNCHANGED storeFailed
     ELSE /\ storeFailed' = [storeFailed EXCEPT ![t] = TRUE]
          /\ UNCHANGED conversations
  /\ pc' = [pc EXCEPT ![t] = "publish"]
  /\ UNCHANGED << envVars, sessions, processingQueue, busVars, request, requestId,
                  existingSession, sessionWritten, mode, roundVars, responseMessage,
                  error, terminal, appended, lifeVars >>

\* ------------------------------------------------------------ publication
PublishResponse(t) ==
  /\ Alive
  /\ pc[t] = "publish"
  /\ IF isConnected
     THEN /\ responseChannel' = Append(responseChannel, responseMessage[t])
          /\ terminal' = [terminal EXCEPT ![t] = Append(@, responseMessage[t])]
          /\ pc' = [pc EXCEPT ![t] = "finish"]
          /\ UNCHANGED error
     ELSE /\ error' = [error EXCEPT ![t] = "redis error"]
          /\ pc' = [pc EXCEPT ![t] = "sendError"]
          /\ UNCHANGED << responseChannel, terminal >>
  /\ UNCHANGED << envVars, storeVars, processingQueue, activityChannel, agentLogs, request, requestId, existingSession, sessionWritten, mode, roundVars,
                  responseMessage, appended, storeFailed, lifeVars >>

FinishRequest(t) ==
  /\ Alive
  /\ pc[t] = "finish"
  /\ processingQueue' = Remove(processingQueue, requestId[t])
  /\ pc' = [pc EXCEPT ![t] = "done"]
  /\ UNCHANGED << envVars, storeVars, busVars, request, requestId, existingSession,
                  sessionWritten, mode, roundVars, responseMessage, error, terminal, appended, storeFailed, lifeVars >>

\* an error payload tagged like a success
ErrorEnvelopeSuccessTag(t) ==
  [id |-> requestId[t], user |-> UserOf(request[t]), error |-> ErrorCategory,
   error_details |-> error[t],
   madness_level |-> MadnessLevel]

ErrorEnvelope(t) ==
  [id |-> requestId[t], user |-> UserOf(request[t]), error |-> ErrorCategory,
   error_details |-> error[t],
   madness_level |-> ErrorMadnessLevel]

\* sendErrorResponse up to its publish; a rejected publish leaves through
\* the catch of handleIncomingMessage, which only logs
SendErrorResponse(t) ==
  /\ Alive
  /\ pc[t] = "sendError"
  /\ IF isConnected
     THEN /\ responseChannel' = Append(responseChannel, ErrorEnvelope(t))
          /\ terminal' = [terminal EXCEPT ![t] = Append(@, ErrorEnvelope(t))]
          /\ pc' = [pc EXCEPT ![t] = "errorSent"]
     ELSE /\ pc' = [pc EXCEPT ![t] = "failed"]
          /\ UNCHANGED << responseChannel, terminal >>
  /\ UNCHANGED << envVars, storeVars, processingQueue, activityChannel, agentLogs, request, requestId, existingSession, sessionWritten, mode, roundVars,
                  responseMessage, error, appended, storeFailed, lifeVars >>

FinishError(t) ==
  /\ Alive
  /\ pc[t] = "errorSent"
  /\ processingQueue' = Remove(processingQueue, requestId[t])
  /\ pc' = [pc EXCEPT ![t] = "done"]
  /\ UNCHANGED << envVars, storeVars, busVars, request, requestId, existingSession,
                  sessionWritten, mode, roundVars, responseMessage, error, terminal, appended, storeFailed, lifeVars >>

\* ------------------------------------------------------ start, shutdown
requestVars == << processingQueue, busVars, pc, request, requestId, existingSession,
                  sessionWritten, mode, roundVars, responseMessage, error, terminal,
                  appended, storeFailed >>

\* a start() that goes on to connectRedis although the backend did not load
InitializeLMStudioSwallows(ok) ==
  /\ Alive
  /\ startPc = "initializeLMStudio"
  /\ model' = IF ok THEN "loaded" ELSE model
  /\ startPc' = "subscribe"
  /\ UNCHANGED << envVars, storeVars, requestVars, shutdownPc, exitCode, statusMessage,
                  statusChannel, serviceStatus, statusWriteFailed >>

\* lmStudio.llm settles; on success start() goes on into connectRedis, which
\* creates both connections and waits for the subscription
InitializeLMStudio(ok) ==
  /\ Alive
  /\ startPc = "initializeLMStudio"
  /\ IF ok
     THEN model' = "loaded" /\ startPc' = "subscribe" /\ UNCHANGED exitCode
     ELSE exitCode' = "1" /\ UNCHANGED << model, startPc >>
  /\ UNCHANGED << envVars, storeVars, requestVars, shutdownPc, statusMessage,
                  statusChannel, serviceStatus, statusWriteFailed >>

\* redisSub.subscribe settles; on success the message handler is registered
\* and start() publishes ONLINE at once when the main connection is up
Subscribe(ok) ==
  /\ Alive
  /\ startPc = "subscribe"
  /\ IF ok
     THEN /\ PublishStatus("start", "ONLINE", isConnected)
          /\ startPc' = IF isConnected THEN "publishStatus" ELSE "waitForConnect"
          /\ UNCHANGED exitCode
     ELSE /\ exitCode' = "1"
          /\ UNCHANGED << startPc, statusChannel, statusMessage >>
  /\ UNCHANGED << envVars, storeVars, requestVars, model, shutdownPc, serviceStatus,
                  statusWriteFailed >>

\* the rest of shutdown() after publishStatus
Unload ==
  IF model = "loaded"
  THEN shutdownPc' = "unload" /\ UNCHANGED exitCode
  ELSE shutdownPc' = "exit" /\ exitCode' = "0"

\* a write of the status key that changes nothing in the store
SetServiceStatusSkipsWrite ==
  /\ Alive
  /\ statusMessage # <<>>
  /\ statusMessage' = Tail(statusMessage)
  /\ statusWriteFailed' = ~isConnected
  /\ IF Head(statusMessage).caller = "start"
     THEN startPc' = "started" /\ UNCHANGED << shutdownPc, exitCode >>
     ELSE Unload /\ UNCHANGED startPc
  /\ UNCHANGED << envVars, storeVars, requestVars, model, statusChannel, serviceStatus >>

\* the reply to the oldest publish arrives and that call writes the status key;
\* statusWriteFailed records whether the latest write was rejected
SetServiceStatus ==
  /\ Alive
  /\ statusMessage # <<>>
  /\ statusMessage' = Tail(statusMessage)
  /\ IF isConnected
     THEN /\ serviceStatus' = << Head(statusMessage).message >>
          /\ statusWriteFailed' = FALSE
     ELSE /\ statusWriteFailed' = TRUE
          /\ UNCHANGED serviceStatus
  /\ IF Head(statusMessage).caller = "start"
     THEN startPc' = "started" /\ UNCHANGED << shutdownPc, exitCode >>
     ELSE Unload /\ UNCHANGED startPc
  /\ UNCHANGED << envVars, storeVars, requestVars, model, statusChannel >>

\* SIGINT or SIGTERM
Shutdown ==
  /\ Alive
  /\ shutdownPc = "none"
  /\ PublishStatus("shutdown", "OFFLINE", isConnected)
  /\ IF isConnected
     THEN shutdownPc' = "publishStatus" /\ UNCHANGED exitCode
     ELSE Unload
  /\ UNCHANGED << envVars, storeVars, requestVars, model, startPc, serviceStatus,
                  statusWriteFailed >>

\* model.unload settles; the connections are closed and the process exits
ModelUnload ==
  /\ Alive
  /\ shutdownPc = "unload"
  /\ shutdownPc' = "exit"
  /\ exitCode' = "0"
  /\ UNCHANGED << envVars, storeVars, requestVars, model, startPc, statusMessage,
                  statusChannel, serviceStatus, statusWriteFailed >>

Lifecycle ==
  \/ \E ok \in BOOLEAN : InitializeLMStudio(ok)
  \/ \E ok \in BOOLEAN : Subscribe(ok)
  \/ SetServiceStatus
  \/ Shutdown
  \/ ModelUnload

\* ------------------------------------------------------------------ Next

Environment ==
  \/ RedisConnect
  \/ RedisError
  \/ \E u \in Users : SessionExpires(u)
  \/ \E u \in Users : ConversationExpires(u)

Pipeline ==
  \/ \E t \in Tasks : UpdateUserSession(t)
  \/ \E t \in Tasks : ProcessAgenticRequest(t)
  \/ \E t \in Tasks, r \in BackendResults : ModelReturn(t, r)
  \/ \E t \in Tasks : ModelFault(t)
  \/ \E t \in Tasks : ModelHang(t)
  \/ \E t \in Tasks : StoreConversationLtrim(t)
  \/ \E t \in Tasks : StoreConversationExpire(t)
  \/ \E t \in Tasks : PublishResponse(t)
  \/ \E t \in Tasks : FinishRequest(t)
  \/ \E t \in Tasks : SendErrorResponse(t)
  \/ \E t \in Tasks : FinishError(t)

\* tool rounds with two tools that cannot fail
ToolRounds ==
  \/ \E t \in Tasks, tool \in InvokedTools : \E args \in ArgsOf(tool) :
       OnToolCall(t, tool, args)
  \/ \E t \in Tasks : OnToolResult(t, "none")

\* tool rounds in which the backend makes the given calls, tools failing or not
RoundsWith(calls) ==
  \/ \E t \in Tasks, c \in calls : OnToolCall(t, c.tool, c.args)
  \/ \E t \in Tasks : HistoryLrange(t)
  \/ \E t \in Tasks : \E fault \in {"none", "ENOENT", "SyntaxError"} :
       OnToolResult(t, fault)

\* every call the backend can make
AllCalls == { [tool |-> tool, args |-> args] : tool \in ToolRegistry, args \in HistoryArgs
                \cup { [filePath |-> "notes.txt"], NoArgs, [expression |-> "42*137+256"] } }

\* one call of each tool of the registry
RegistryCalls ==
  { c \in AllCalls : c.args \in ArgsOf(c.tool) /\
      (c.tool = "conversation_history" => c.args = [userId |-> "u1"]) }

\* the calls of conversation_history
HistoryCalls ==
  { c \in AllCalls : c.tool = "conversation_history" /\ c.args \in HistoryArgs }

AllToolRounds == RoundsWith({ c \in AllCalls : c.args \in ArgsOf(c.tool) })

\* the whole service under any traffic
Next ==
  \/ Lifecycle
  \/ Environment
  \/ \E t \in Tasks, p \in Payloads : HandleIncomingMessage(t, p)
  \/ Pipeline
  \/ AllToolRounds

Spec == LifeInit /\ [][Next]_vars

\* the service under direct-generation and malformed traffic, with connection
\* losses and key expiry
NextStore ==
  \/ Environment
  \/ \E t \in Tasks, p \in AsPayloads(StandardRequests) \cup {Garbage} :
       HandleIncomingMessage(t, p)
  \/ Pipeline

StoreSpec == Init /\ [][NextStore]_vars

\* the service under tool-augmented traffic, with a connection loss that lasts
NextAgent ==
  \/ RedisError
  \/ \E t \in Tasks, p \in AsPayloads(AgenticRequests) : HandleIncomingMessage(t, p)
  \/ Pipeline
  \/ ToolRounds

AgentSpec == Init /\ [][NextAgent]_vars

\* the service under direct-generation and malformed traffic while the
\* connection stays up and no key expires
\* one tool-augmented request with every tool of the registry, tools failing
\* or not, next to direct-generation requests of the same user
ToolRequest == [user |-> "u1", message |-> "analyze it"]
PlainRequest == [id |-> "a", user |-> "u1", message |-> "Hello"]

NextTool ==
  \/ RedisError
  \/ \E p \in AsPayloads({ToolRequest}) : HandleIncomingMessage(1, p)
  \/ \E t \in Tasks \ {1}, p \in AsPayloads({PlainRequest}) :
       HandleIncomingMessage(t, p)
  \/ Pipeline
  \/ RoundsWith(RegistryCalls)

ToolSpec == Init /\ [][NextTool]_vars

\* one tool-augmented request consulting the conversation history, next to
\* direct-generation requests of the same user, the connection staying up
NextHistory ==
  \/ \E p \in AsPayloads({ToolRequest}) : HandleIncomingMessage(1, p)
  \/ \E t \in Tasks \ {1}, p \in AsPayloads({PlainRequest}) :
       HandleIncomingMessage(t, p)
  \/ Pipeline
  \/ RoundsWith(HistoryCalls)

HistorySpec == Init /\ [][NextHistory]_vars

\* the service under requests whose envelope fails the schema, with a
\* connection loss that lasts
NextDefect ==
  \/ RedisError
  \/ \E t \in Tasks, p \in AsPayloads(DefectRequests) : HandleIncomingMessage(t, p)
  \/ Pipeline

DefectSpec == Init /\ [][NextDefect]_vars

\* direct-generation and tool-augmented requests side by side
MixedRequests ==
  { [id |-> "a", user |-> "u1", message |-> "Hello", agent_mode |-> "standard"],
    [user |-> "u1", message |-> "Hello", agent_mode |-> "autonomous"] }

NextMixed ==
  \/ \E t \in Tasks, p \in AsPayloads(MixedRequests) : HandleIncomingMessage(t, p)
  \/ Pipeline
  \/ ToolRounds

MixedSpec == Init /\ [][NextMixed]_vars

NextQuiet ==
  \/ \E t \in Tasks, p \in AsPayloads(StandardRequests) \cup {Garbage} :
       HandleIncomingMessage(t, p)
  \/ Pipeline

QuietSpec == Init /\ [][NextQuiet]_vars

\* the event loop runs every continuation that is ready, and a backend call
\* ends in one of three ways: it returns, it rejects, or it never settles
Fairness ==
  \A t \in Tasks :
    /\ WF_vars(UpdateUserSession(t))
    /\ WF_vars(ProcessAgenticRequest(t))
    /\ WF_vars((\E r \in BackendResults : ModelReturn(t, r)) \/ ModelFault(t)
                 \/ ModelHang(t))
    /\ WF_vars(StoreConversationLtrim(t))
    /\ WF_vars(StoreConversationExpire(t))
    /\ WF_vars(PublishResponse(t))
    /\ WF_vars(FinishRequest(t))
    /\ WF_vars(SendErrorResponse(t))
    /\ WF_vars(FinishError(t))

LiveSpec == QuietSpec /\ Fairness

\* the life of the process, from start() to exit, while requests that carry
\* the same id reach the backend and wait there
LifeRequests == { [id |-> "a", user |-> "u1", message |-> "Hello"] }

NextLife ==
  \/ Lifecycle
  \/ RedisConnect
  \/ RedisError
  \/ \E t \in Tasks, p \in AsPayloads(LifeRequests) : HandleIncomingMessage(t, p)
  \/ \E t \in Tasks : UpdateUserSession(t)
  \/ \E t \in Tasks : ProcessAgenticRequest(t)

LifeSpec == LifeInit /\ [][NextLife]_vars

\* two requests of one user, told apart by their texts; the bus delivers the
\* first to task 1 before it delivers the second to task 2
FirstRequest == [id |-> "a", user |-> "u1", message |-> "Hello"]
SecondRequest == [id |-> "b", user |-> "u1", message |-> "calc"]

NextOrder ==
  \/ \E p \in AsPayloads({FirstRequest}) : HandleIncomingMessage(1, p)
  \/ pc[1] # "idle" /\ \E p \in AsPayloads({SecondRequest}) : HandleIncomingMessage(2, p)
  \/ Pipeline

OrderSpec == Init /\ [][NextOrder]_vars

\* session updates of requests with and without sampling preferences
PreferenceRequests ==
  { [id |-> "a", user |-> "u1", message |-> "Hello"] @@ p :
      p \in { [x \in {} |-> 0],
              [temperature |-> 0],
              [temperature |-> 2],
              [max_tokens |-> 50],
              [agent_mode |-> "autonomous", temperature |-> 9, max_tokens |-> 200] } }

NextPref ==
  \/ \E t \in Tasks, p \in AsPayloads(PreferenceRequests) : HandleIncomingMessage(t, p)
  \/ \E t \in Tasks : UpdateUserSession(t)
  \/ \E u \in Users : SessionExpires(u)

PrefSpec == Init /\ [][NextPref]_vars

\* a client that sends a second request, which consults the conversation
\* history, once it has received the Response Envelope of its first request
FollowUpRequest == [id |-> "b", user |-> "u1", message |-> "analyze it"]

NextFollowUp ==
  \/ RedisConnect
  \/ RedisError
  \/ \E p \in AsPayloads({PlainRequest}) : HandleIncomingMessage(1, p)
  \/ /\ terminal[1] # <<>>
     /\ "response" \in DOMAIN terminal[1][1]
     /\ \E p \in AsPayloads({FollowUpRequest}) : HandleIncomingMessage(2, p)
  \/ Pipeline
  \/ RoundsWith(HistoryCalls)

FollowUpSpec == Init /\ [][NextFollowUp]_vars

\* what model.respond and model.act can hand back: a parsed text, a content
\* text, both, neither, empty texts, or a number where a text is expected
AnyBackendResults ==
  BackendResults
    \cup { [parsed |-> "", content |-> "text"], [parsed |-> "", content |-> ""],
           [parsed |-> NumberSeven], [content |-> NumberSeven],
           [parsed |-> "answer", content |-> "text"], [x \in {} |-> ""] }

NextResponse ==
  \/ \E t \in Tasks, p \in AsPayloads(MixedRequests) : HandleIncomingMessage(t, p)
  \/ \E t \in Tasks : UpdateUserSession(t)
  \/ \E t \in Tasks : ProcessAgenticRequest(t)
  \/ \E t \in Tasks, r \in AnyBackendResults : ModelReturn(t, r)
  \/ \E t \in Tasks : StoreConversationLtrim(t)
  \/ \E t \in Tasks : StoreConversationExpire(t)
  \/ \E t \in Tasks : PublishResponse(t)
  \/ \E t \in Tasks : FinishRequest(t)
  \/ \E t \in Tasks : SendErrorResponse(t)
  \/ \E t \in Tasks : FinishError(t)

ResponseSpec == Init /\ [][NextResponse]_vars

\* the started service receiving a termination signal while requests are
\* in flight
NextStop ==
  \/ Shutdown
  \/ SetServiceStatus
  \/ ModelUnload
  \/ \E t \in Tasks, p \in AsPayloads(LifeRequests) : HandleIncomingMessage(t, p)
  \/ Pipeline

StopSpec == Init /\ [][NextStop]_vars

\* a tool-augmented request of the anonymous user next to requests of user
\* u1, the backend choosing the arguments of conversation_history
AnonymousToolRequest == [id |-> "c", message |-> "analyze it"]

NextConfine ==
  \/ \E p \in AsPayloads({AnonymousToolRequest}) : HandleIncomingMessage(1, p)
  \/ \E t \in Tasks \ {1}, p \in AsPayloads({PlainRequest}) :
       HandleIncomingMessage(t, p)
  \/ Pipeline
  \/ RoundsWith(HistoryCalls)

ConfineSpec == Init /\ [][NextConfine]_vars

\* mode selection over a wider set of message texts and mode flags
ModeMessages == {"Hello", "solve", "Solve", "resolved", "analyze it",
                 "do calculate", "Calculate", "calc"}

ModeRequests ==
  { [id |-> "a", message |-> m] : m \in ModeMessages }
    \cup { [id |-> "a", message |-> m, agent_mode |-> a] :
             m \in ModeMessages, a \in {"standard", "autonomous"} }
    \cup { [id |-> "a"], [id |-> "a", agent_mode |-> "autonomous"] }

NextMode ==
  \/ \E t \in Tasks, p \in AsPayloads(ModeRequests) : HandleIncomingMessage(t, p)
  \/ \E t \in Tasks : UpdateUserSession(t)
  \/ \E t \in Tasks : ProcessAgenticRequest(t)

ModeSpec == Init /\ [][NextMode]_vars

\* ======================================================================
\* Properties
\* ======================================================================
IsResponse(env) == "response" \in DOMAIN env
IsError(env) == "error" \in DOMAIN env
Range(seq) == { seq[i] : i \in 1..Len(seq) }
NoDuplicates(seq) == \A i, j \in 1..Len(seq) : seq[i] = seq[j] => i = j

\* the Response Envelopes a request has published
Responses(t) == { terminal[t][i] : i \in { k \in 1..Len(terminal[t]) :
                                              IsResponse(terminal[t][k]) } }

\* C1: every request handed to processAgenticRequest publishes at most one
\* terminal envelope on the response channel, carrying the request's id, and
\* a request with a message text has published exactly one once its
\* processing has ended.
C1_ExactlyOneTerminalEnvelope ==
  \A t \in Tasks :
    /\ Len(terminal[t]) <= 1
    /\ \A i \in 1..Len(terminal[t]) : terminal[t][i].id = requestId[t]
    /\ (pc[t] \in {"done", "failed"} /\ "message" \in DOMAIN request[t]) =>
         Len(terminal[t]) = 1

\* C2: every request with a message text that the orchestrator has finished
\* has had exactly one Conversation Entry appended, whether it ended with a
\* Response Envelope or with an Error Envelope.
C2_OneEntryPerRequest ==
  \A t \in Tasks :
    (pc[t] = "done" /\ "message" \in DOMAIN request[t]) => appended[t] = 1

\* C3: every request whose backend call has been issued eventually gets a
\* terminal envelope (a call that does not return surfaces as a fault).
C3_EveryRequestAnswered ==
  \A t \in Tasks : (pc[t] \in {"respond", "act"}) ~> (terminal[t] # <<>>)

\* C4: agent_rounds of every published Response Envelope equals the number of
\* on-tool-result callbacks that fired for the request.
C4_RoundsEqualToolResults ==
  \A t \in Tasks : \A env \in Responses(t) :
    env.agent_rounds = Len(toolResults[t])

RoundEvents(id) ==
  Cardinality({ i \in 1..Len(activityChannel) : activityChannel[i].request_id = id })

SharesId(t) == \E o \in Tasks \ {t} : requestId[o] = requestId[t]

\* C5: agent_rounds of a Response Envelope equals the number of Round Events
\* published with the request's id, and there is exactly one Round Event per
\* tool invocation.
C5_RoundsEqualRoundEvents ==
  \A t \in Tasks : \A env \in Responses(t) :
    ~SharesId(t) =>
      /\ env.agent_rounds = RoundEvents(requestId[t])
      /\ RoundEvents(requestId[t]) = Len(toolCalls[t])

\* C6 (as stated): tools_used of every Response Envelope is a list without
\* duplicates holding exactly the tools invoked, the empty list when none was.
C6_ToolListIsInvokedSet ==
  \A t \in Tasks : \A env \in Responses(t) :
    /\ "tools_used" \in DOMAIN env
    /\ NoDuplicates(env.tools_used)
    /\ Range(env.tools_used) = Range(toolCalls[t])

\* C6 (amended): when no tool was invoked the Response Envelope carries no
\* tools_used field at all; otherwise tools_used is a list without duplicates
\* holding exactly the tools invoked.
C6_ToolListOrAbsent ==
  \A t \in Tasks : \A env \in Responses(t) :
    IF toolCalls[t] = <<>>
    THEN "tools_used" \notin DOMAIN env
    ELSE /\ "tools_used" \in DOMAIN env
         /\ NoDuplicates(env.tools_used)
         /\ Range(env.tools_used) = Range(toolCalls[t])

\* C6 witness: a Response Envelope listing two tools, each invoked once
C6_Witness ==
  \E t \in Tasks : \E env \in Responses(t) :
    /\ "tools_used" \in DOMAIN env
    /\ Len(env.tools_used) = 2
    /\ Len(toolsUsed[t]) = 4

\* C7 (as stated): no conversation list ever holds more than 100 entries.
C7_NeverMoreThanCap ==
  \A u \in Users : Len(conversations[u].list) <= HistoryCap

TrimsNow(t) == pc[t] = "ltrim" /\ pc'[t] = "expire"

\* C7 (amended): every trim that succeeds leaves at most 100 entries, namely
\* the most recent ones (the head of the list as it was); the list is only
\* bounded by 100 after such a trim, not between a push and its trim.
C7_TrimKeepsMostRecent ==
  [][ \A t \in Tasks : TrimsNow(t) =>
        LET before == conversations[UserOf(request[t])].list
            after == conversations'[UserOf(request[t])].list
        IN /\ Len(after) = Min(Len(before), HistoryCap)
           /\ after = SubSeq(before, 1, Len(after)) ]_vars

\* C7 witness: a full list from which a trim has removed the oldest entry
C7_Witness ==
  \E u \in Users :
    /\ Len(conversations[u].list) = HistoryCap
    /\ conversations[u].list[HistoryCap].aiResponse = "earlier-98"
    /\ conversations[u].list[2].aiResponse # "earlier-1"

\* requests of user u whose session update has been carried out
SessionUpdates(u) ==
  Cardinality({ t \in Tasks : /\ pc[t] \notin {"idle", "dropped", "setex"}
                              /\ UserOf(request[t]) = u })

\* C8 (as stated): after n requests of a user, sequential or concurrently in
\* flight, the stored conversation counter is n.
C8_CounterCountsRequests ==
  \A u \in DOMAIN sessions : sessions[u].conversationCount = SessionUpdates(u)

WritesSession(t) == pc[t] = "setex" /\ pc'[t] = "enqueue" /\ isConnected

\* C8 (amended): a session write stores one more than the counter the request
\* read, so the stored counter grows by exactly 1 when the record was not
\* written between the request's read and its write; requests of one user
\* that overlap read the same counter and the later write wins.
C8_WriteAddsOneToRead ==
  [][ \A t \in Tasks : WritesSession(t) =>
        LET u == UserOf(request[t])
        IN /\ existingSession[t] # <<>> =>
                sessions'[u].conversationCount =
                  existingSession[t][1].conversationCount + 1
           /\ (u \in DOMAIN sessions /\ existingSession[t] = << sessions[u] >>) =>
                sessions'[u].conversationCount = sessions[u].conversationCount + 1
     ]_vars

\* C8 witness: two requests of one user, one after the other, counted as 2
C8_Witness ==
  \E u \in DOMAIN sessions :
    /\ sessions[u].conversationCount = 2
    /\ SessionUpdates(u) = 2

\* C9: a session write of a request that found no record stores the counter
\* 1, and every session write sets the key's time-to-live to 24 hours.
C9_NewRecordStartsAtOne ==
  [][ \A t \in Tasks : WritesSession(t) =>
        LET u == UserOf(request[t])
        IN /\ u \in DOMAIN sessions'
           /\ sessions'[u].ttl = SessionTTL
           /\ existingSession[t] = <<>> => sessions'[u].conversationCount = 1
     ]_vars

\* C9 witness: the second request of a user finds no record (the first one's
\* record is gone) and its write starts again at 1 with a 24-hour expiry
C9_Witness ==
  \E t \in Tasks \ {1} :
    /\ pc[1] = "done"
    /\ Len(terminal[1]) = 1
    /\ UserOf(request[1]) = UserOf(request[t])
    /\ pc[t] = "enqueue"
    /\ existingSession[t] = <<>>
    /\ UserOf(request[t]) \in DOMAIN sessions
    /\ sessions[UserOf(request[t])].conversationCount = 1
    /\ sessions[UserOf(request[t])].ttl = SessionTTL

TriggerWords == {"solve", "analyze", "calculate"}

\* text = pre \o word \o post for some pre and post
ContainsWord(text, word) ==
  \E i \in 1..Len(Chars[text]) :
    /\ i + Len(Chars[word]) - 1 <= Len(Chars[text])
    /\ \A k \in 1..Len(Chars[word]) : Chars[text][i + k - 1] = Chars[word][k]

WantsAutonomous(req) ==
  \/ Field(req, "agent_mode") = "autonomous"
  \/ /\ "message" \in DOMAIN req
     /\ \E w \in TriggerWords : ContainsWord(req.message, w)

C11_StandardEmptyToolList ==
  \A t \in Tasks : mode[t] = "standard" =>
    /\ pc[t] # "act"
    /\ toolCalls[t] = <<>> /\ toolResults[t] = <<>>
    /\ ~SharesId(t) => RoundEvents(requestId[t]) = 0
    /\ \A env \in Responses(t) :
         /\ env.agent_rounds = 0
         /\ "tools_used" \in DOMAIN env
         /\ env.tools_used = <<>>

\* C11 (amended): a request processed in standard mode makes one
\* direct-generation call (it enters model.respond once, from the in-flight
\* registration, and never model.act), invokes no tool, publishes no Round
\* Event, and its Response Envelope has agent_rounds 0 and no tools_used
\* field at all.
C11_StandardNoToolList ==
  [][ \A t \in Tasks : mode'[t] = "standard" =>
        /\ pc'[t] # "act"
        /\ (pc'[t] = "respond" /\ pc[t] # "respond") => pc[t] = "enqueue"
        /\ pc[t] = "respond" => pc'[t] \in {"respond", "ltrim", "publish",
                                             "sendError", "hung"}
        /\ toolCalls'[t] = <<>> /\ toolResults'[t] = <<>>
        /\ agentRounds'[t] = 0
        /\ ~SharesId(t)' => RoundEvents(requestId[t])' = 0
        /\ \A env \in Responses(t)' :
             /\ env.agent_rounds = 0
             /\ "tools_used" \notin DOMAIN env
             /\ env.response # ""
     ]_vars

\* C11 witness: the request of the scenario has its Response Envelope on the
\* response channel while a tool-augmented request has published Round Events
C11_Witness ==
  \E t \in Tasks :
    /\ request[t] = [id |-> "a", user |-> "u1", message |-> "Hello",
                     agent_mode |-> "standard"]
    /\ Responses(t) # {}
    /\ \A env \in Responses(t) : env.agent_rounds = 0 /\ env.id = "a"
    /\ activityChannel # <<>>

\* the payload of request t was not JSON, or the parsed object has no message
Malformed(t) == pc[t] # "idle" /\ "message" \notin DOMAIN request[t]

\* processAgenticRequest has been called for request t
ReachedOrchestrator(t) == pc[t] \notin {"idle", "dropped", "setex", "enqueue"}

\* C12: a malformed payload (not JSON, or without the message field) is
\* dropped: it never reaches the orchestrator, no session record is written
\* for it, it is not added to the in-flight set, nothing is published for it.
C12_MalformedDropped ==
  \A t \in Tasks : Malformed(t) =>
    /\ ~ReachedOrchestrator(t)
    /\ ~sessionWritten[t]
    /\ \A k \in DOMAIN processingQueue : processingQueue[k] # t
    /\ terminal[t] = <<>>

\* C13: when processAgenticRequest faults for a request, the envelope
\* published for it is an Error Envelope on the response channel: it has the
\* request's id and user, the fixed error category, the fault's message text
\* as detail, and a madness_level other than that of Response Envelopes.
C13_ErrorEnvelopeShape ==
  \A t \in Tasks : error[t] # Undefined =>
    \A i \in 1..Len(terminal[t]) :
      LET env == terminal[t][i]
      IN /\ IsError(env) /\ ~IsResponse(env)
         /\ \E j \in 1..Len(responseChannel) : responseChannel[j] = env
         /\ env.id = requestId[t]
         /\ env.user = UserOf(request[t])
         /\ env.error = ErrorCategory
         /\ env.error_details = error[t]
         /\ env.madness_level # MadnessLevel

\* C13 witness: the backend call of a request rejected and its Error Envelope
\* is on the response channel
C13_Witness ==
  \E t \in Tasks :
    /\ error[t] = "backend fault"
    /\ Len(terminal[t]) = 1
    /\ terminal[t][1].error_details = "backend fault"
    /\ responseChannel[Len(responseChannel)] = terminal[t][1]

\* C14: no Response Envelope that fails ChatResponseSchema is published; a
\* request whose assembled envelope fails the schema publishes no Response
\* Envelope, stores no Conversation Entry, and has an Error Envelope
\* delivered for it by the time its processing has ended.
C14_InvalidNeverPublished ==
  /\ \A i \in 1..Len(responseChannel) :
       IsResponse(responseChannel[i]) => SchemaAccepts(responseChannel[i])
  /\ \A t \in Tasks : error[t] = "ZodError" =>
       /\ Responses(t) = {}
       /\ appended[t] = 0
       /\ pc[t] \in {"done", "failed"} =>
            Len(terminal[t]) = 1 /\ IsError(terminal[t][1])

\* the session update of request t is over and did not write the record: the
\* get or the setex was rejected
SessionUnavailable(t) ==
  /\ pc[t] \notin {"idle", "dropped", "setex"}
  /\ ~sessionWritten[t]
  /\ "message" \in DOMAIN request[t]

\* C15: a request whose session update failed is still added to the
\* in-flight set, still processed by the orchestrator, and has exactly one
\* terminal envelope once its processing has ended.
C15_SessionFailureNonFatal ==
  \A t \in Tasks : SessionUnavailable(t) =>
    /\ (pc[t] \in {"respond", "act", "ltrim", "expire", "publish", "sendError",
                   "hung"} /\ ~SharesId(t)) => requestId[t] \in DOMAIN processingQueue
    /\ pc[t] \in {"done", "failed"} => mode[t] # "none"
    /\ pc[t] \in {"done", "failed"} => Len(terminal[t]) = 1

\* C16: when the push, the trim or the expiry refresh of storeConversation
\* was rejected for a request, the request's assembled Response Envelope is
\* still the one envelope published for it, and no Error Envelope is.
C16_AppendFailureNonFatal ==
  \A t \in Tasks : storeFailed[t] =>
    /\ \A i \in 1..Len(terminal[t]) : ~IsError(terminal[t][i])
    /\ pc[t] \in {"done", "failed"} => terminal[t] = << responseMessage[t] >>

\* the step is a tool function of request t returning its result
ToolReturns(t) == Len(toolResults'[t]) = Len(toolResults[t]) + 1

\* C17: whenever a tool function returns, also after a failure inside the
\* tool, the request stays in the model.act call with no fault raised, the
\* value handed back is an object, and it carries an error field when the
\* tool failed.
C17_ToolFaultsStayInResult ==
  [][ \A t \in Tasks : ToolReturns(t) =>
        LET r == toolResults'[t][Len(toolResults'[t])]
        IN /\ pc'[t] = "act" /\ error'[t] = Undefined
           /\ curTool'[t] = Undefined
           /\ DOMAIN r.result # {}
           /\ "thrown" \notin DOMAIN r.result
           /\ r.failed => "error" \in DOMAIN r.result
           /\ ~r.failed => "error" \notin DOMAIN r.result
     ]_vars

\* C17 witness: a request during which the calculator failed and then the
\* file inspector failed has published its Response Envelope
C17_Witness ==
  \E t \in Tasks :
    /\ Len(toolResults[t]) = 2
    /\ toolResults[t][1].name = "mad_calculator" /\ toolResults[t][1].failed
    /\ toolResults[t][2].name = "file_analyzer" /\ toolResults[t][2].failed
    /\ \A i \in 1..2 : "error" \in DOMAIN toolResults[t][i].result
    /\ Responses(t) # {}

\* the history lookup failed on a lost connection and its result says so
HistoryFailureSeen ==
  \E t \in Tasks : \E i \in 1..Len(toolResults[t]) :
    /\ toolResults[t][i].name = "conversation_history"
    /\ toolResults[t][i].failed
    /\ "error" \in DOMAIN toolResults[t][i].result

\* the results conversation_history has returned without failing
HistoryResults ==
  { r \in UNION { Range(toolResults[t]) : t \in Tasks } :
      r.name = "conversation_history" /\ ~r.failed }

\* C18: a history lookup with limit n >= 0 (5 when no limit is given)
\* returns exactly min(n, length) entries, namely the head of the user's list
\* as it was read (the most recent entries, most recent first), together with
\* a total count.
C18_HistoryReturnsLimitEntries ==
  \A r \in HistoryResults :
    LET n == IF "limit" \in DOMAIN r.args THEN r.args.limit ELSE 5
        list == r.read.seen
    IN /\ Len(r.result.conversations) = Min(n, Len(list))
       /\ r.result.conversations = SubSeq(list, 1, Min(n, Len(list)))
       /\ r.result.total \in Nat

\* the tools named by the completed Round Events of request id, in the order
\* of the activity channel
CompletedEvents(id) ==
  LET IsCompletedOf(msg) == msg.request_id = id /\ msg.activity.status = "completed"
      events == SelectSeq(activityChannel, IsCompletedOf)
  IN [i \in 1..Len(events) |-> events[i].activity.tool_name]

\* the tools of request t in the order their invocations completed
CompletionOrder(t) == [i \in 1..Len(toolResults[t]) |-> toolResults[t][i].name]

RECURSIVE IsSubsequence(_, _)
IsSubsequence(a, b) ==
  IF a = <<>> THEN TRUE
  ELSE IF b = <<>> THEN FALSE
  ELSE IF Head(a) = Head(b) THEN IsSubsequence(Tail(a), Tail(b))
  ELSE IsSubsequence(a, Tail(b))

\* C19: the completed Round Events of a request are on the activity channel
\* in the order in which its tool invocations completed (events that were
\* not published are missing, none is out of order), whatever other requests
\* publish in between.
C19_RoundEventsInCompletionOrder ==
  \A t \in Tasks : (pc[t] # "idle" /\ ~SharesId(t)) =>
    IsSubsequence(CompletedEvents(requestId[t]), CompletionOrder(t))

\* C19 witness: two different tools completed one after the other for a
\* request, both events are on the channel, and another request has
\* published its envelope meanwhile
C19_Witness ==
  \E t \in Tasks :
    /\ ~SharesId(t)
    /\ CompletionOrder(t) = << "system_info", "mad_calculator" >>
    /\ CompletedEvents(requestId[t]) = << "system_info", "mad_calculator" >>
    /\ \E o \in Tasks \ {t} : terminal[o] # <<>>

Published(status) == \E i \in DOMAIN statusChannel : statusChannel[i].status = status

C21_StatusAtLifecycleEdges ==
  /\ startPc = "started" => Published("ONLINE")
  /\ shutdownPc \in {"unload", "exit"} => Published("OFFLINE")
  /\ \A i \in DOMAIN statusChannel :
       statusChannel[i].status = "OFFLINE" =>
         \E j \in 1..(i - 1) : statusChannel[j].status = "ONLINE"

\* ======================================================================
\* C22: the status key always mirrors the latest status payload published
\* on the status channel
LatestStatus == statusChannel[Len(statusChannel)]

C22_StatusKeyMirrorsLatest ==
  statusChannel # <<>> => serviceStatus = << LatestStatus >>

\* C22: once every publishStatus call has got past its write of the status
\* key and the latest write was not rejected, the key holds the latest
\* payload published on the status channel
C22_StatusKeyMirrorsSettled ==
  (statusChannel # <<>> /\ statusMessage = <<>> /\ ~statusWriteFailed)
    => serviceStatus = << LatestStatus >>

C22_Witness ==
  /\ Len(statusChannel) = 2
  /\ statusMessage = <<>>
  /\ ~statusWriteFailed
  /\ serviceStatus = << LatestStatus >>
  /\ LatestStatus.status = "OFFLINE"

\* ======================================================================
\* C23: a request accepted while the connection was up (its session write
\* succeeded) is not lost by a drop of the connection during its flight:
\* once its processing has ended and the connection is back, it has one
\* terminal envelope on the response channel
C23_InFlightSurvivesReconnect ==
  \A t \in Tasks :
    (sessionWritten[t] /\ "message" \in DOMAIN request[t] /\ redisErrors > 0
       /\ isConnected /\ pc[t] \in {"done", "failed"})
      => Len(terminal[t]) = 1

\* the inference call of request t has rejected
BackendFaulted(t) == error[t] = "backend fault"

\* C24: a fault in the inference call of a request ends that request with
\* its own Error Envelope, and every other request that has ended while it
\* was faulted has its own terminal envelope
C24_BackendFaultIsolated ==
  \A t \in Tasks : BackendFaulted(t) =>
    /\ pc[t] \in {"done", "failed"} => terminal[t] = << ErrorEnvelope(t) >>
    /\ \A u \in Tasks \ {t} :
         (pc[u] \in {"done", "failed"} /\ "message" \in DOMAIN request[u])
           => /\ Len(terminal[u]) = 1
              /\ terminal[u][1].id = requestId[u]

\* ======================================================================
\* the tool callbacks request t has had: one per invocation started and one
\* per invocation completed
OwnCallbacks(t) == Len(toolCalls[t]) + Len(toolResults[t])

\* C25: with several requests in flight, every message added to the activity
\* channel comes from a tool callback of one request and carries that
\* request's id and that invocation's tool, and the round count and the tool
\* list of every Response Envelope are the number of callbacks and the
\* tools of its own request
C25_RoundsAndActivityPerRequest ==
  [][ /\ activityChannel' # activityChannel =>
           \E t \in Tasks :
             /\ OwnCallbacks(t)' = OwnCallbacks(t) + 1
             /\ \A o \in Tasks \ {t} : OwnCallbacks(o)' = OwnCallbacks(o)
             /\ Len(activityChannel') = Len(activityChannel) + 1
             /\ SubSeq(activityChannel', 1, Len(activityChannel)) = activityChannel
             /\ activityChannel'[Len(activityChannel')].request_id = requestId[t]
             /\ activityChannel'[Len(activityChannel')].activity.tool_name
                  = IF curTool'[t] # Undefined THEN curTool'[t] ELSE curTool[t]
      /\ \A t \in Tasks : \A env \in Responses(t)' :
           /\ env.agent_rounds = OwnCallbacks(t)'
           /\ IF toolCalls'[t] = <<>> THEN "tools_used" \notin DOMAIN env
              ELSE Range(env.tools_used) = Range(toolCalls'[t])
    ]_vars

\* C25 witness: a request has published its Response Envelope with its own
\* two callbacks counted while another request, with another id, is inside
\* model.act with a tool invocation of its own, and the activity channel
\* holds messages of both
C25_Witness ==
  \E t \in Tasks, o \in Tasks :
    /\ requestId[t] # requestId[o]
    /\ \E env \in Responses(t) : env.agent_rounds = 2 /\ Len(env.tools_used) = 1
    /\ pc[o] = "act" /\ Len(toolCalls[o]) = 1
    /\ RoundEvents(requestId[t]) = 2
    /\ RoundEvents(requestId[o]) >= 1

\* ======================================================================
\* the place of request t's Conversation Entry in its user's list, the head
\* of the list (place 1) being the newest entry
EntryIndex(t) ==
  LET list == conversations[UserOf(request[t])].list
  IN CHOOSE i \in 1..Len(list) : list[i].userMessage = request[t].message

\* C26: the Conversation Entries of one user are in the list in the order in
\* which the bus delivered their requests: the entry of the request delivered
\* first is older than the entry of the request delivered second
C26_EntriesInDeliveryOrder ==
  (appended[1] = 1 /\ appended[2] = 1) => EntryIndex(1) > EntryIndex(2)

\* ======================================================================
\* the requests handed to processAgenticRequest whose terminal envelope has
\* not been published
InFlight ==
  { t \in Tasks : pc[t] \in {"respond", "act", "ltrim", "expire", "publish",
                              "sendError", "hung"} }

\* C27: every status payload reports as processing_queue_size the number of
\* requests in flight at the time it is published, also when two of them
\* carry the same id
C27_QueueSizeCountsInFlight ==
  [][ Len(statusChannel') > Len(statusChannel) =>
        statusChannel'[Len(statusChannel')].processing_queue_size
          = Cardinality(InFlight) ]_vars

\* ======================================================================
\* C28: the step that publishes the first ONLINE payload is taken by a
\* start() that has loaded the backend and has got past the subscription,
\* with the main connection up; start() never gets past initializeLMStudio
\* without a loaded backend; and a process that has exited with code 1 has
\* published no ONLINE payload
C28_OnlineOnlyAfterInit ==
  [][ /\ (Published("ONLINE")' /\ ~Published("ONLINE")) =>
           /\ model = "loaded"
           /\ startPc \in {"subscribe", "waitForConnect"}
           /\ startPc' = "publishStatus"
           /\ isConnected'
           /\ exitCode' = Undefined
      /\ startPc' # "initializeLMStudio" => model' = "loaded"
      /\ exitCode' = "1" =>
           /\ ~Published("ONLINE")'
           /\ startPc' \in {"initializeLMStudio", "subscribe"}
    ]_vars

\* C28 witness: start() had to wait for the main connection, then published
\* ONLINE and completed
C28_Witness ==
  /\ startPc = "started"
  /\ model = "loaded"
  /\ statusChannel # <<>>
  /\ statusChannel[1].status = "ONLINE"
  /\ statusChannel[1].processing_queue_size = 1

\* ======================================================================
\* C29: a session write stores as preferences the agentic-mode flag that is
\* true exactly for agent_mode "autonomous", the request's temperature when
\* the request has one (0 included) and 0.7 otherwise, and the request's
\* max_tokens when it has one and 1000 otherwise
C29_PreferencesFromRequest ==
  [][ \A t \in Tasks : WritesSession(t) =>
        LET stored == sessions'[UserOf(request[t])].preferences
            req == request[t]
        IN /\ stored.agenticMode = (Field(req, "agent_mode") = "autonomous")
           /\ stored.temperature = IF "temperature" \in DOMAIN req THEN req.temperature
                                   ELSE DefaultTemperature
           /\ stored.maxTokens = IF "max_tokens" \in DOMAIN req THEN req.max_tokens
                                 ELSE DefaultMaxTokens
    ]_vars

\* ======================================================================
\* C30: the Redis variant and the MQTT variant select the same processing
\* mode for every request: the mode the Redis variant has chosen for a
\* request is autonomous exactly when the MQTT variant's selection is
C30_VariantsSelectSameMode ==
  \A t \in Tasks :
    mode[t] # "none" => (mode[t] = "autonomous" <=> MqttUseAgentMode(request[t]))

\* ======================================================================
\* the history lookups request t has completed for the given user
LookupsOf(t, user) ==
  { i \in 1..Len(toolResults[t]) :
      /\ toolResults[t][i].name = "conversation_history"
      /\ toolResults[t][i].args.userId = user
      /\ ~toolResults[t][i].failed }

C32_ConversationKeysExpire ==
  \A u \in Users : conversations[u].list # <<>> => conversations[u].ttl # NoTTL

\* ======================================================================
\* C33: every Response Envelope on the response channel has a response that
\* is a string and is not empty: a text of the backend or the fixed fallback
\* text
C33_ResponseTextNonEmpty ==
  \A i \in DOMAIN responseChannel :
    IsResponse(responseChannel[i]) =>
      /\ IsString(responseChannel[i].response)
      /\ responseChannel[i].response # ""
      /\ responseChannel[i].response \in {"answer", "text", FallbackText}

\* C33 witness: a request in each mode has its Response Envelope published,
\* one of them with the fallback text
C33_Witness ==
  \E i \in DOMAIN responseChannel, k \in DOMAIN responseChannel :
    /\ IsResponse(responseChannel[i]) /\ IsResponse(responseChannel[k])
    /\ responseChannel[i].response = FallbackText
    /\ \E t \in Tasks, o \in Tasks :
         /\ mode[t] = "standard" /\ terminal[t] = << responseChannel[i] >>
         /\ mode[o] = "autonomous" /\ terminal[o] = << responseChannel[k] >>

\* ======================================================================
\* the processing of request t has ended, on whatever path
Ended(t) == pc[t] \in {"idle", "dropped", "done", "failed"}

\* C34: once the processing of a request has ended its id is not in
\* processingQueue (unless a request with the same id is still in flight),
\* and when no request is being processed processingQueue is empty
C34_QueueDoesNotLeak ==
  /\ \A t \in Tasks :
       (pc[t] \in {"done", "failed"} /\ ~SharesId(t))
         => requestId[t] \notin DOMAIN processingQueue
  /\ (\A t \in Tasks : Ended(t)) => DOMAIN processingQueue = {}

\* ======================================================================
\* C35: a request whose Conversation Entry has been appended never has an
\* Error Envelope published, and the envelope published for it is the
\* Response Envelope the entry was built from
C35_StoredAndPublishedAgree ==
  \A t \in Tasks : appended[t] = 1 =>
    /\ \A i \in 1..Len(terminal[t]) :
         /\ ~IsError(terminal[t][i])
         /\ terminal[t][i] = responseMessage[t]

\* ======================================================================
\* C36: once an OFFLINE status has been published, no step adds a message to
\* the response channel or to the activity channel
C36_SilentAfterOffline ==
  [][ Published("OFFLINE") =>
        /\ responseChannel' = responseChannel
        /\ activityChannel' = activityChannel ]_vars

\* ======================================================================
\* C37: every history lookup completed during the processing of a request
\* has read the conversation list of the user of that request, and the
\* entries it returned are entries that list held when it was read
C37_HistoryConfinedToRequester ==
  \A t \in Tasks : \A i \in 1..Len(toolResults[t]) :
    (toolResults[t][i].name = "conversation_history" /\ ~toolResults[t][i].failed) =>
      /\ toolResults[t][i].args.userId = UserOf(request[t])
      /\ Range(toolResults[t][i].result.conversations)
           \subseteq Range(toolResults[t][i].read.seen)

\* ======================================================================
\* C38: a request is handed to the orchestrator only after start() has
\* published ONLINE, that is, never while start() is still waiting for the
\* main connection
C38_NoRequestBeforeOnline ==
  \A t \in Tasks :
    pc[t] \notin {"idle", "dropped", "setex", "enqueue"} =>
      /\ startPc \in {"publishStatus", "started"}
      /\ Published("ONLINE")

====
